---- MODULE Spec2Model ----
(***************************************************************************)
(* Model of src/src/App.jsx: the canvas animation loop (drawFrame), the    *)
(* MediaRecorder capture session (startRecording / stopRecording), the     *)
(* 60 second deadline timer, the unmount cleanup and the generation        *)
(* request (handleGenerate) that loads the image the animation draws.      *)
(* The browser is the environment: it runs requestAnimationFrame           *)
(* callbacks, fires timers, delivers MediaRecorder events, resolves the    *)
(* backend requests and fires Image.onload.  Every handler runs to         *)
(* completion (single-threaded event loop), so each handler is one action. *)
(***************************************************************************)
EXTENDS Integers, Sequences, FiniteSets, TLC

\* ---- bounds of the model ------------------------------------------------
MaxSessions == 2      \* MediaRecorder objects created (calls of startRecording)
MaxFrames == 4        \* requestAnimationFrame handles handed out
MaxTime == 90000      \* the clock stops advancing here (ms)
TickMs == 60000       \* granularity of the clock (ms)
MaxGens == 2          \* calls of handleGenerate
MaxFrags == 1         \* dataavailable events of one recorder before it stops
MaxSize == 1          \* size of an encoded fragment (0 = empty)
MaxSteps == 7         \* events (handler runs, clock ticks) of one behaviour

\* ---- program constants --------------------------------------------------
DeadlineMs == 60000   \* setTimeout(..., 60_000)

VARIABLES
    mounted,        \* the App component is mounted
    now,            \* performance.now() / the timer clock, in ms
    loading,        \* useState: loading
    error,          \* useState: error ("" or "err")
    textResp,       \* useState: textResp (0 = '', g = text of generation g)
    imageDataUrl,   \* useState: imageDataUrl (0 = '', g = payload of generation g)
    script,         \* useState: script (0 = '', g = script of generation g)
    recording,      \* useState: recording
    videoUrl,       \* useState: videoUrl (<<>> = '', <<a>> = object URL of artifact a)
    canvasRef,      \* canvasRef.current is a canvas (TRUE) or null (FALSE)
    recorders,      \* every MediaRecorder created so far, in creation order
    recorderRef,    \* recorderRef.current: 0 = null, else index into recorders
    chunksRef,      \* chunksRef.current: sequence of fragments
    startTimeRef,   \* startTimeRef.current
    rafRef,         \* rafRef.current: last handle returned by requestAnimationFrame
    nextHandle,     \* the browser's next requestAnimationFrame handle
    rafQueue,       \* scheduled animation callbacks: [id, loop]
    imageRef,       \* imageRef.current: 0 = null, g = the loaded Image of generation g
    timers,         \* pending setTimeout callbacks: [session, due]
    genCount,       \* number of handleGenerate calls so far
    pendingGen,     \* generation whose Promise.all is unsettled (0 = none)
    pendingImages,  \* generations whose Image has src set and onload not yet fired
    cancelled,      \* history: sessions whose stop path has run while they were current
    frames,         \* the frame on the canvas: what the last drawFrame call drew
    budget          \* events this behaviour may still take

vars == <<mounted, now, loading, error, textResp, imageDataUrl, script, recording,
          videoUrl, canvasRef, recorders, recorderRef, chunksRef, startTimeRef,
          rafRef, nextHandle, rafQueue, imageRef, timers, genCount, pendingGen,
          pendingImages, cancelled, frames, budget>>

reactVars == <<loading, error, textResp, imageDataUrl, script>>
genVars == <<genCount, pendingGen, pendingImages, imageRef>>

\* One event of the behaviour: a handler runs or the clock advances.
Event == budget > 0 /\ budget' = budget - 1

Min(S) == CHOOSE x \in S : \A y \in S : x <= y

\* A React state setter after unmount changes nothing.
SetState(cur, new) == IF mounted THEN new ELSE cur

\* ---- MediaRecorder ------------------------------------------------------
\* new MediaRecorder(stream, ...): state "inactive", handlers registered.
NewRecorder ==
    [state |-> "inactive", started |-> FALSE, finalizePending |-> FALSE,
     stopFired |-> FALSE, errored |-> FALSE, emitted |-> 0,
     startedAt |-> 0, sent |-> <<>>]

\* rec.start(): state becomes "recording".
RecStart(r) == [r EXCEPT !.state = "recording", !.started = TRUE, !.startedAt = now]

\* A recorder whose stop() delivers onstop at once, skipping the queued task.
RecStopAtOnce(r) ==
    [r EXCEPT !.state = "inactive", !.stopFired = TRUE]

\* rec.stop(): state becomes "inactive" at once; dataavailable and stop are
\* delivered by a task queued for later.
RecStop(r) ==
    [r EXCEPT !.state = "inactive", !.finalizePending = TRUE]

\* The session state of the data model, read off a recorder.
Phase(r) ==
    IF ~r.started THEN "Idle"
    ELSE IF r.state = "recording" THEN "Recording"
    ELSE IF ~r.stopFired THEN "Stopping"
    ELSE "Stopped"

Rank(p) == CASE p = "Idle" -> 0 [] p = "Recording" -> 1
             [] p = "Stopping" -> 2 [] p = "Stopped" -> 3

Sessions == 1..Len(recorders)

\* recorderRef.current && recorderRef.current.state !== 'inactive'
RecorderActive ==
    recorderRef # 0 /\ recorders[recorderRef].state # "inactive"

\* A fragment callback without the e.data.size test.
OnDataAvailableAlways(chunks, frag) == Append(chunks, frag)

\* rec.ondataavailable: e.data.size && chunksRef.current.push(e.data)
OnDataAvailable(chunks, frag) ==
    IF frag.size # 0 THEN Append(chunks, frag) ELSE chunks

\* rec.onstop: new Blob(chunksRef.current), URL.createObjectURL(blob)
Artifact(s, chunks) == [session |-> s, blob |-> chunks]

\* ---- animation ----------------------------------------------------------
\* requestAnimationFrame(drawFrame) at the end of drawFrame, for the loop
\* that startRecording of session `loop` began.
RequestFrame(queue, loop) == queue \cup {[id |-> nextHandle, loop |-> loop]}

\* cancelAnimationFrame(h): removes the callback with that handle, if any.
CancelFrame(queue, h) == {c \in queue : c.id # h}

Loops(queue) == {c.loop : c \in queue}

\* ---- the frame drawFrame draws ------------------------------------------
CanvasWidth == 1280    \* <canvas width={1280}>
CanvasHeight == 720    \* <canvas height={720}>
StarCount == 200       \* for (let i = 0; i < 200; i++)

\* const elapsed = (performance.now() - startTimeRef.current) / 1000 and
\* const seed = Math.floor(elapsed * 10), on whole milliseconds.
Seed(ms) == (ms * 10) \div 1000

\* The % operator of JavaScript: the remainder has the sign of the dividend.
JsRem(a, b) == IF a >= 0 THEN a % b ELSE 0 - ((0 - a) % b)

\* A star position computed without the modulo.
StarXUnwrapped(i, seed, width) == i * 97 + seed * 13

\* const x = (i * 97 + seed * 13) % canvas.width
StarX(i, seed, width) == JsRem(i * 97 + seed * 13, width)

\* const y = (i * 71 + seed * 29) % canvas.height
StarY(i, seed, height) == JsRem(i * 71 + seed * 29, height)

\* The points one drawFrame call paints on a canvas of the given size, by
\* loop index: for (let i = 0; i < 200; i++) ctx.fillRect(x, y, 2, 2)
Stars(seed, width, height) ==
    [i \in 0..(StarCount - 1) |-> <<StarX(i, seed, width), StarY(i, seed, height)>>]

\* A frame whose clock start is re-seeded at every call: elapsed is 0.
FrameReseeded(loop, start, img) ==
    [loop |-> loop, elapsed |-> 0, seed |-> 0, img |-> img]

\* What one drawFrame call draws: elapsed = now - startTimeRef.current, the
\* seed computed from it, and the image in imageRef.current (0: the image
\* step is skipped).
Frame(loop, start, img) ==
    [loop |-> loop, elapsed |-> now - start, seed |-> Seed(now - start), img |-> img]

\* The stars frame f shows on the canvas the component renders.
Painted(f) == Stars(f.seed, CanvasWidth, CanvasHeight)

\* The canvas before the first drawFrame call.
NoFrame == [loop |-> 0, elapsed |-> 0, seed |-> 0, img |-> 0]


\* ---- Init: the state after the first render and its effect ---------------
\* useEffect has called handleGenerate(): error '', loading true, videoUrl '',
\* the three requests are in flight.
Init ==
    /\ mounted = TRUE
    /\ now = 0
    /\ loading = TRUE
    /\ error = ""
    /\ textResp = 0
    /\ imageDataUrl = 0
    /\ script = 0
    /\ recording = FALSE
    /\ videoUrl = <<>>
    /\ canvasRef = TRUE
    /\ recorders = <<>>
    /\ recorderRef = 0
    /\ chunksRef = <<>>
    /\ startTimeRef = 0
    /\ rafRef = 0
    /\ nextHandle = 1
    /\ rafQueue = {}
    /\ imageRef = 0
    /\ timers = {}
    /\ genCount = 1
    /\ pendingGen = 1
    /\ pendingImages = {}
    /\ cancelled = {}
    /\ frames = NoFrame
    /\ budget = MaxSteps

\* ---- handleGenerate -----------------------------------------------------
\* A handleGenerate that also cancels the scheduled animation callback.
HandleGenerateCancels ==
    /\ Event
    /\ mounted /\ ~loading
    /\ genCount < MaxGens
    /\ error' = ""
    /\ loading' = TRUE
    /\ videoUrl' = <<>>
    /\ rafQueue' = CancelFrame(rafQueue, rafRef)
    /\ genCount' = genCount + 1
    /\ pendingGen' = genCount + 1
    /\ UNCHANGED <<mounted, now, textResp, imageDataUrl, script, recording, canvasRef,
                   recorders, recorderRef, chunksRef, startTimeRef, rafRef, nextHandle,
                   imageRef, timers, pendingImages, cancelled, frames>>

\* The form's submit button is disabled while loading.
HandleGenerate ==
    /\ Event
    /\ mounted /\ ~loading
    /\ genCount < MaxGens
    /\ error' = ""
    /\ loading' = TRUE
    /\ videoUrl' = <<>>
    /\ genCount' = genCount + 1
    /\ pendingGen' = genCount + 1
    /\ UNCHANGED <<mounted, now, textResp, imageDataUrl, script, recording, canvasRef,
                   recorders, recorderRef, chunksRef, startTimeRef, rafRef, nextHandle,
                   rafQueue, imageRef, timers, pendingImages, cancelled, frames>>

\* What one call of api() gives handleGenerate: a response whose JSON body
\* carries the field read from it ("object"), a response whose JSON body is
\* not null and has the field missing or empty ("empty": {} or a number, a
\* string, an array, or the field set to ''), a response whose JSON body is
\* null, or a rejection (network error, or a status that is not ok, thrown
\* by api).
Responses == {"object", "empty", "null", "rejected"}

\* The value a setter is called with: the result of generation g, or a falsy
\* value (undefined or '', shown and tested like the initial '').
FieldValue(r, g) == IF r = "object" THEN g ELSE 0

\* Promise.all settles.  A rejection of any call goes to catch before any
\* setter runs.  When all are fulfilled, setTextResp(t.text),
\* setImageDataUrl(img.data_url) and setScript(sc.script) run one after the
\* other and the Image is created last: reading a property of a null body
\* throws, which leaves the setters before it done and goes to catch.  The
\* Image is created and given its src whatever img.data_url is; whether and
\* when it fires onload is left to ImageOnload.
GenerateSettle(rText, rImage, rScript) ==
    /\ Event
    /\ pendingGen # 0
    /\ LET fulfilled == "rejected" \notin {rText, rImage, rScript}
           textSet == fulfilled /\ rText # "null"
           imageSet == textSet /\ rImage # "null"
           scriptSet == imageSet /\ rScript # "null"
       IN  /\ textResp' = IF textSet THEN SetState(textResp, FieldValue(rText, pendingGen))
                           ELSE textResp
           /\ imageDataUrl' = IF imageSet
                               THEN SetState(imageDataUrl, FieldValue(rImage, pendingGen))
                               ELSE imageDataUrl
           /\ script' = IF scriptSet THEN SetState(script, FieldValue(rScript, pendingGen))
                         ELSE script
           /\ pendingImages' = IF scriptSet THEN pendingImages \cup {pendingGen}
                                ELSE pendingImages
           /\ error' = IF scriptSet THEN error ELSE SetState(error, "err")
    /\ loading' = SetState(loading, FALSE)
    /\ pendingGen' = 0
    /\ UNCHANGED <<mounted, now, recording, videoUrl, canvasRef, recorders, recorderRef,
                   chunksRef, startTimeRef, rafRef, nextHandle, rafQueue, imageRef,
                   timers, genCount, cancelled, frames>>

\* im.onload = () => { imageRef.current = im }
ImageOnload(g) ==
    /\ Event
    /\ g \in pendingImages
    /\ imageRef' = g
    /\ pendingImages' = pendingImages \ {g}
    /\ UNCHANGED <<mounted, now, reactVars, recording, videoUrl, canvasRef, recorders,
                   recorderRef, chunksRef, startTimeRef, rafRef, nextHandle, rafQueue,
                   timers, genCount, pendingGen, cancelled, frames>>

\* ---- startRecording -----------------------------------------------------
\* The Start button is rendered when !recording and enabled when imageDataUrl
\* is set.  outcome: "ok", "createFail" (captureStream / new MediaRecorder
\* throws) or "startFail" (rec.start() throws).
StartGuard ==
    /\ mounted /\ ~recording /\ imageDataUrl # 0
    /\ canvasRef

StartRecording(outcome) ==
    /\ Event
    /\ StartGuard
    /\ Len(recorders) < MaxSessions
    /\ nextHandle <= MaxFrames
    /\ videoUrl' = <<>>
    /\ IF outcome = "createFail"
       THEN UNCHANGED <<recorders, recorderRef, chunksRef, startTimeRef, recording,
                        rafRef, nextHandle, rafQueue, timers, frames>>
       ELSE /\ chunksRef' = <<>>
            /\ recorderRef' = Len(recorders) + 1
            /\ startTimeRef' = now
            /\ recording' = TRUE
            /\ IF outcome = "startFail"
               THEN /\ recorders' = Append(recorders, NewRecorder)
                    /\ UNCHANGED <<rafRef, nextHandle, rafQueue, timers, frames>>
               ELSE /\ recorders' = Append(recorders, RecStart(NewRecorder))
                    \* drawFrame()
                    /\ frames' = Frame(Len(recorders) + 1, now, imageRef)
                    /\ rafQueue' = RequestFrame(rafQueue, Len(recorders) + 1)
                    /\ rafRef' = nextHandle
                    /\ nextHandle' = nextHandle + 1
                    \* setTimeout(() => stopRecording(), 60_000)
                    /\ timers' = timers \cup
                          {[session |-> Len(recorders) + 1, due |-> now + DeadlineMs]}
    /\ UNCHANGED <<mounted, now, reactVars, canvasRef, genVars, cancelled>>

\* ---- drawFrame as a requestAnimationFrame callback -----------------------
\* The browser runs the callbacks that are pending when a frame begins in
\* one batch, in the order of their handles; a callback requested during the
\* batch belongs to the next frame.  `st` is the state the batch has built
\* so far: the callbacks requested, rafRef.current, the next handle and the
\* canvas.
BatchInput == [queue |-> {}, rafRef |-> rafRef, next |-> nextHandle, frames |-> frames]

\* One drawFrame call made for callback c.  if (!canvas || !ctx) return:
\* after unmount the call ends without drawing or requesting a frame.
DrawFrame(st, c) ==
    IF canvasRef
    THEN [queue |-> st.queue \cup {[id |-> st.next, loop |-> c.loop]},
          rafRef |-> st.next,
          next |-> st.next + 1,
          frames |-> Frame(c.loop, startTimeRef, imageRef)]
    ELSE st

\* The callback of the batch that runs first.
FirstCallback(pending) == CHOOSE c \in pending : \A d \in pending : c.id <= d.id

RECURSIVE RunCallbacks(_, _)
RunCallbacks(st, pending) ==
    IF pending = {} THEN st
    ELSE RunCallbacks(DrawFrame(st, FirstCallback(pending)),
                      pending \ {FirstCallback(pending)})

\* One animation frame of the browser.
AnimationFrame ==
    /\ Event
    /\ rafQueue # {}
    /\ canvasRef => nextHandle + Cardinality(rafQueue) - 1 <= MaxFrames
    /\ rafQueue' = RunCallbacks(BatchInput, rafQueue).queue
    /\ rafRef' = RunCallbacks(BatchInput, rafQueue).rafRef
    /\ nextHandle' = RunCallbacks(BatchInput, rafQueue).next
    /\ frames' = RunCallbacks(BatchInput, rafQueue).frames
    /\ UNCHANGED <<mounted, now, reactVars, recording, videoUrl, canvasRef, recorders,
                   recorderRef, chunksRef, startTimeRef, timers, genVars, cancelled>>

\* ---- stopRecording ------------------------------------------------------
\* The two steps of a stop path act on the recorders and on the scheduled
\* callbacks; `log` records the order in which a handler performs them.
StopInput == [recorders |-> recorders, rafQueue |-> rafQueue, log |-> <<>>]

\* A stop step without the state !== 'inactive' test.
StepStopUnguarded(st) ==
    IF recorderRef # 0
    THEN [st EXCEPT !.recorders[recorderRef] = RecStop(@), !.log = Append(@, "stop")]
    ELSE st

\* if (recorderRef.current && recorderRef.current.state !== 'inactive')
\*     recorderRef.current.stop()
StepStop(st) ==
    IF recorderRef # 0 /\ st.recorders[recorderRef].state # "inactive"
    THEN [st EXCEPT !.recorders[recorderRef] = RecStop(@), !.log = Append(@, "stop")]
    ELSE st

\* A cancel step that removes no callback.
StepCancelNone(st) == [st EXCEPT !.log = Append(@, "cancel")]

\* cancelAnimationFrame(rafRef.current)
StepCancel(st) ==
    [st EXCEPT !.rafQueue = CancelFrame(@, rafRef), !.log = Append(@, "cancel")]

\* stopRecording: stop the recorder, then cancel the animation frame.
StopRecordingRun == StepCancel(StepStop(StopInput))

\* useEffect cleanup: cancel the animation frame, then stop the recorder.
CleanupRun == StepStop(StepCancel(StopInput))

NoteCancel == IF recorderRef # 0 THEN cancelled \cup {recorderRef} ELSE cancelled

StopBody ==
    /\ Event
    /\ recorders' = StopRecordingRun.recorders
    /\ rafQueue' = StopRecordingRun.rafQueue
    /\ cancelled' = NoteCancel
    /\ UNCHANGED <<mounted, now, reactVars, recording, videoUrl, canvasRef, recorderRef,
                   chunksRef, startTimeRef, rafRef, nextHandle, genVars, frames>>

\* The Stop button is rendered while recording.
StopRecording ==
    /\ mounted /\ recording
    /\ timers' = timers
    /\ StopBody

\* The deadline callback of a setTimeout: () => stopRecording().
DeadlineTimer(t) ==
    /\ t \in timers
    /\ t.due <= now
    /\ timers' = timers \ {t}
    /\ StopBody

\* stopRecording ran in this step, from the button or from a deadline timer.
StopStep == StopRecording \/ \E t \in timers : DeadlineTimer(t)

\* ---- useEffect cleanup ----------------------------------------------------
\* React has detached the canvas ref when the cleanup runs.
Unmount ==
    /\ Event
    /\ mounted
    /\ mounted' = FALSE
    /\ canvasRef' = FALSE
    /\ recorders' = CleanupRun.recorders
    /\ rafQueue' = CleanupRun.rafQueue
    /\ cancelled' = NoteCancel
    /\ UNCHANGED <<now, reactVars, recording, videoUrl, recorderRef, chunksRef,
                   startTimeRef, rafRef, nextHandle, timers, genVars, frames>>

\* ---- MediaRecorder events ------------------------------------------------
\* The fragment a recorder emits as its next dataavailable event.
Fragment(s, size) == [session |-> s, n |-> recorders[s].emitted + 1, size |-> size]

\* History kept with the recorder: the non-empty fragments its encoder has
\* emitted, in the order of emission.
Emit(sent, s, size) == IF size # 0 THEN Append(sent, Fragment(s, size)) ELSE sent

\* A dataavailable event of a recording recorder.
DataAvailable(s, size) ==
    /\ Event
    /\ s \in Sessions
    /\ recorders[s].state = "recording"
    /\ recorders[s].emitted < MaxFrags
    /\ recorders' = [recorders EXCEPT ![s].emitted = @ + 1,
                                      ![s].sent = Emit(@, s, size)]
    /\ chunksRef' = OnDataAvailable(chunksRef,
                        [session |-> s, n |-> recorders[s].emitted + 1, size |-> size])
    /\ UNCHANGED <<mounted, now, reactVars, recording, videoUrl, canvasRef, recorderRef,
                   startTimeRef, rafRef, nextHandle, rafQueue, timers, genVars, cancelled, frames>>

\* A final task whose last dataavailable event is lost.
FinalChunksDropped(s, size) == chunksRef

\* The chunks and the state the final dataavailable + onstop leave behind.
FinalChunks(s, size) ==
    OnDataAvailable(chunksRef,
        [session |-> s, n |-> recorders[s].emitted + 1, size |-> size])

\* An onstop that exposes the artifact and leaves the recording flag set.
OnStopStillRecording(s, size) ==
    /\ chunksRef' = FinalChunks(s, size)
    /\ videoUrl' = SetState(videoUrl, <<Artifact(s, FinalChunks(s, size))>>)
    /\ recording' = recording

\* rec.onstop: build the blob, expose its URL, leave the recording state.
OnStop(s, size) ==
    /\ chunksRef' = FinalChunks(s, size)
    /\ videoUrl' = SetState(videoUrl, <<Artifact(s, FinalChunks(s, size))>>)
    /\ recording' = SetState(recording, FALSE)

\* The task rec.stop() queued: the last dataavailable, then onstop.
Finalize(s, size) ==
    /\ Event
    /\ s \in Sessions
    /\ recorders[s].finalizePending
    /\ recorders' = [recorders EXCEPT ![s].finalizePending = FALSE,
                                      ![s].stopFired = TRUE,
                                      ![s].emitted = @ + 1,
                                      ![s].sent = Emit(@, s, size)]
    /\ OnStop(s, size)
    /\ UNCHANGED <<mounted, now, reactVars, canvasRef, recorderRef, startTimeRef, rafRef,
                   nextHandle, rafQueue, timers, genVars, cancelled, frames>>

\* The encoder fails while recording: the browser inactivates the recorder,
\* fires error (no handler is registered), dataavailable and stop in one task.
EncoderError(s, size) ==
    /\ Event
    /\ s \in Sessions
    /\ recorders[s].state = "recording"
    /\ recorders' = [recorders EXCEPT ![s].state = "inactive",
                                      ![s].errored = TRUE,
                                      ![s].stopFired = TRUE,
                                      ![s].emitted = @ + 1,
                                      ![s].sent = Emit(@, s, size)]
    /\ OnStop(s, size)
    /\ UNCHANGED <<mounted, now, reactVars, canvasRef, recorderRef, startTimeRef, rafRef,
                   nextHandle, rafQueue, timers, genVars, cancelled, frames>>

\* ---- the clock ------------------------------------------------------------
\* Time passes.  A timer whose delay has run out fires at some later moment
\* of the browser's choosing: the clock may advance while it is pending.
Tick ==
    /\ Event
    /\ now < MaxTime
    /\ now' = Min({now + TickMs, MaxTime})
    /\ UNCHANGED <<mounted, reactVars, recording, videoUrl, canvasRef, recorders,
                   recorderRef, chunksRef, startTimeRef, rafRef, nextHandle, rafQueue,
                   timers, genVars, cancelled, frames>>

Next ==
    \/ HandleGenerate
    \/ \E a, b, c \in Responses : GenerateSettle(a, b, c)
    \/ \E g \in 1..MaxGens : ImageOnload(g)
    \/ \E o \in {"ok", "createFail", "startFail"} : StartRecording(o)
    \/ AnimationFrame
    \/ StopRecording
    \/ \E t \in timers : DeadlineTimer(t)
    \/ Unmount
    \/ \E s \in 1..MaxSessions, z \in 0..MaxSize : DataAvailable(s, z)
    \/ \E s \in 1..MaxSessions, z \in 0..MaxSize : Finalize(s, z)
    \/ \E s \in 1..MaxSessions, z \in 0..MaxSize : EncoderError(s, z)
    \/ Tick

Spec == Init /\ [][Next]_vars

\* The starfield as a function of the elapsed time.  The inputs are the
\* moments at which a frame is drawn: the generation of the mount effect was
\* fulfilled, a session was started at time 0 and is recording, its image
\* has not loaded yet, and `now` is a moment up to seed MaxSeed at which the
\* browser may run an animation frame (the deadline timer may be late).
\* StarSteps events follow.
MaxSeed == 650
StarSteps == 2

\* One moment for every seed: even seeds at the start of their 100 ms
\* interval, odd seeds at its end.
FrameMoments == {100 * k + 99 * (k % 2) : k \in 0..MaxSeed}

InitStars ==
    /\ mounted = TRUE
    /\ now \in FrameMoments
    /\ loading = FALSE
    /\ error = ""
    /\ textResp = 1 /\ imageDataUrl = 1 /\ script = 1
    /\ recording = TRUE
    /\ videoUrl = <<>>
    /\ canvasRef = TRUE
    /\ recorders = <<[NewRecorder EXCEPT !.state = "recording", !.started = TRUE]>>
    /\ recorderRef = 1
    /\ chunksRef = <<>>
    /\ startTimeRef = 0
    /\ rafRef = 1
    /\ nextHandle = 2
    /\ rafQueue = {[id |-> 1, loop |-> 1]}
    /\ imageRef = 0
    /\ pendingImages = {1}
    /\ timers = {[session |-> 1, due |-> DeadlineMs]}
    /\ genCount = 1
    /\ pendingGen = 0
    /\ cancelled = {}
    /\ frames = [loop |-> 1, elapsed |-> 0, seed |-> Seed(0), img |-> 0]
    /\ budget = StarSteps

SpecStars == InitStars /\ [][Next]_vars

\* ==== properties ===========================================================

Recording(s) == recorders[s].state = "recording"

\* Lemma used by C1: under the Start/Stop button at most one MediaRecorder
\* is in the recording state.
OneRecorderRecording ==
    Cardinality({s \in Sessions : Recording(s)}) <= 1

\* C1: at most one capture session is recording and at most one animation
\* loop is active at any time.
C1_OneSessionActive ==
    /\ Cardinality({s \in Sessions : Recording(s)}) <= 1
    /\ Cardinality(Loops(rafQueue)) <= 1

NoEncoderError == \A s \in Sessions : ~recorders[s].errored

\* C2: a deadline timer that stops a recording session does so when 60 s
\* have elapsed since the start of that session, not earlier (stated for runs
\* in which no encoder error occurred; earlier sessions were stopped
\* manually).  How late a timer fires is the browser's choice, so the
\* "not later" half is not stated.
C2_StopsAtOwnDeadline ==
    [][NoEncoderError =>
         ((\E t \in timers : DeadlineTimer(t)) /\ RecorderActive
               => now >= recorders[recorderRef].startedAt + DeadlineMs)]_vars

\* C3: stopRecording on a session that is not recording (none, Idle, Stopping
\* or Stopped) leaves the recorders, the fragments, the recording flag, the
\* video URL and the animation handle unchanged, and after any stopRecording
\* a second one would change neither the recorders nor the scheduled callbacks.
C3_StopIdempotent ==
    [][StopStep =>
         /\ ~RecorderActive =>
               UNCHANGED <<recorders, chunksRef, recording, videoUrl, rafRef>>
         /\ StopRecordingRun.recorders' = recorders'
         /\ StopRecordingRun.rafQueue' = rafQueue']_vars

\* C3 witness: stopRecording has run on a session whose recorder never
\* started (Idle), and on one that an error had already stopped.
C3_Witness ==
    /\ mounted
    /\ \E s \in cancelled : ~recorders[s].started
    /\ \E s \in cancelled : recorders[s].errored

\* C4: once the stop path of a session has cancelled the animation
\* (stopRecording from the button or from a deadline timer, or the cleanup),
\* no callback of that session's loop is scheduled, no animation frame runs
\* drawFrame for that session, and a cancellation that finds no callback
\* with the handle in rafRef.current leaves the scheduled callbacks unchanged.
C4_NoFramesAfterCancel ==
    [][/\ \A s \in cancelled' : s \notin Loops(rafQueue')
       /\ AnimationFrame => \A c \in rafQueue : c.loop \notin cancelled
       /\ ((StopStep \/ Unmount) /\ (\A c \in rafQueue : c.id # rafRef))
             => rafQueue' = rafQueue]_vars

\* C4 witness: the session whose encoder failed left its loop running; the
\* second session was stopped, which cancelled its callback and not the other
\* loop's, and an animation frame has since run for the remaining loop.
C4_Witness ==
    /\ Len(recorders) = 2 /\ recorders[1].errored
    /\ 2 \in cancelled /\ 1 \notin cancelled
    /\ Loops(rafQueue) = {1}
    /\ frames.loop = 1 /\ rafRef \in {c.id : c \in rafQueue}

\* C5: whenever a recorder is recording, the decoded image is available.
C5_ImageLoadedWhenRecording ==
    \A s \in Sessions : Recording(s) => imageRef # 0

\* C6: a startRecording in which encoder creation or encoder start fails
\* leaves the recording flag false and the video URL empty, and adds neither
\* an animation callback nor a deadline timer.
C6_FailedStartIsIdle ==
    [][(\E o \in {"createFail", "startFail"} : StartRecording(o)) =>
          /\ recording' = FALSE
          /\ videoUrl' = <<>>
          /\ rafQueue' = rafQueue
          /\ timers' = timers]_vars

\* C7: a session whose encoder raised an error is inactive, its animation
\* loop is cancelled and its artifact is not exposed as the video URL.
C7_EncoderFaultDiscards ==
    \A s \in Sessions :
        recorders[s].errored =>
            /\ recorders[s].state = "inactive"
            /\ s \notin Loops(rafQueue)
            /\ videoUrl = <<>> \/ videoUrl[1].session # s

\* C8: every stop path that stops a recording session asks the recorder to
\* stop first and cancels the animation second, teardown included.
C8_StopThenCancel ==
    [][/\ StopStep /\ RecorderActive => StopRecordingRun.log = <<"stop", "cancel">>
       /\ Unmount /\ RecorderActive => CleanupRun.log = <<"stop", "cancel">>]_vars

\* C9: a session a stop path has stopped has nothing pending: it is not
\* recording, no animation callback of it is scheduled and its deadline timer
\* is gone.
C9_NothingPendingAfterStop ==
    \A s \in Sessions :
        recorders[s].started /\ ~Recording(s) /\ ~recorders[s].errored =>
            /\ s \notin Loops(rafQueue)
            /\ \A t \in timers : t.session # s

\* C10: the phase of every session only moves forward along Idle, Recording,
\* Stopping, Stopped; stopRecording takes a Recording session to Stopping;
\* a session that no encoder error ended becomes Stopped only from Stopping,
\* and then the artifact is exposed and the recording flag is false.
C10_PhasesMonotonic ==
    [][\A s \in Sessions :
          /\ Rank(Phase(recorders'[s])) >= Rank(Phase(recorders[s]))
          /\ StopStep /\ Phase(recorders[s]) = "Recording"
                => Phase(recorders'[s]) \in {"Recording", "Stopping"}
          /\ StopStep /\ s = recorderRef /\ Phase(recorders[s]) = "Recording"
                => Phase(recorders'[s]) = "Stopping"
          /\ (Phase(recorders'[s]) = "Stopped" /\ Phase(recorders[s]) # "Stopped"
                 /\ ~recorders'[s].errored)
                => /\ Phase(recorders[s]) = "Stopping"
                   /\ mounted => videoUrl' # <<>> /\ recording' = FALSE]_vars

\* C10 witness: a session stopped through stopRecording has reached Stopped
\* and its artifact is exposed.
C10_Witness ==
    /\ mounted
    /\ \E s \in cancelled :
          /\ Phase(recorders[s]) = "Stopped"
          /\ ~recorders[s].errored
          /\ videoUrl # <<>> /\ videoUrl[1].session = s
          /\ ~recording

\* C11: the accumulated fragment sequence never contains an empty fragment,
\* and the callback leaves the sequence unchanged for a fragment of size 0.
C11_NoEmptyFragment ==
    /\ \A i \in 1..Len(chunksRef) : chunksRef[i].size # 0
    /\ \A s \in Sessions :
          OnDataAvailable(chunksRef, Fragment(s, 0)) = chunksRef

\* C11 witness: the encoder of the current session has delivered more
\* fragments than were accumulated: an empty one was dropped.
C11_Witness ==
    /\ recorderRef # 0
    /\ recorders[recorderRef].emitted > Len(recorders[recorderRef].sent)
    /\ chunksRef = recorders[recorderRef].sent
    /\ Len(chunksRef) > 0

\* The task that ends session s ran in this step, delivering a last fragment
\* of the given size: rec.stop()'s queued task or an encoder error.
FinalizeStep(s, size) == Finalize(s, size) \/ EncoderError(s, size)

\* C12: when a session is finalized, the blob built by onstop is exactly the
\* sequence of non-empty fragments that this session's recorder emitted, in
\* the order of emission (none missing, duplicated, reordered or taken from
\* an earlier session), and the artifact exposed as the video URL is that blob.
C12_ArtifactIsOwnFragments ==
    [][\A s \in Sessions, z \in 0..MaxSize :
          FinalizeStep(s, z) =>
             /\ chunksRef' = recorders'[s].sent
             /\ \A i \in 1..Len(chunksRef') :
                   /\ chunksRef'[i].session = s
                   /\ chunksRef'[i].size # 0
                   /\ \A j \in 1..Len(chunksRef') :
                         i < j => chunksRef'[i].n < chunksRef'[j].n
             /\ mounted => videoUrl' = <<Artifact(s, recorders'[s].sent)>>]_vars

\* C12 witness: the second session's artifact is exposed with two fragments
\* (one delivered while recording, one by the final task), after a first
\* session that had emitted a fragment of its own.
C12_Witness ==
    /\ videoUrl # <<>>
    /\ videoUrl[1].session = 2
    /\ Len(videoUrl[1].blob) = 2
    /\ recorders[1].sent # <<>>
    /\ recorders[2].stopFired

\* handleGenerate ran in this step: the request, or the settling of its
\* Promise.all (try body, catch, finally).
GenerateStep == HandleGenerate \/ \E a, b, c \in Responses : GenerateSettle(a, b, c)

\* C13: a generation request and the settling of a generation, failed or
\* not, leave the capture session unchanged: the recorders and their states,
\* the accumulated fragments, the render clock start, the scheduled animation
\* callback and its handle, the deadline timers and the recording flag.
C13_GenerationLeavesSession ==
    [][GenerateStep =>
          UNCHANGED <<recorders, recorderRef, chunksRef, startTimeRef, rafRef,
                      rafQueue, timers, recording>>]_vars

\* C13 witness: the second generation has failed and a session is recording
\* with its animation callback and its deadline timer in place.
C13_Witness ==
    /\ genCount = 2 /\ pendingGen = 0 /\ error = "err"
    /\ recorderRef # 0 /\ Recording(recorderRef) /\ recording
    /\ \E c \in rafQueue : c.loop = recorderRef /\ c.id = rafRef
    /\ \E t \in timers : t.session = recorderRef

\* The remainder of the division of a by m in 0..m-1, for a >= 0.
Remainder(a, m) == a - m * (a \div m)

\* Canvas sizes other than the one the component renders.
OtherSizes == {<<1, 1>>, <<97, 71>>, <<640, 360>>, <<1920, 1080>>}

\* The frame f is the starfield of the claim on a canvas of size w x h:
\* the seed is floor(elapsed * 10), there are exactly 200 points, point i is
\* at ((i*97 + seed*13) mod w, (i*71 + seed*29) mod h), inside the canvas.
IsStarfield(f, pts, w, h) ==
    /\ f.seed >= 0
    /\ 100 * f.seed <= f.elapsed /\ f.elapsed < 100 * (f.seed + 1)
    /\ DOMAIN pts = 0..199
    /\ \A i \in 0..199 :
          /\ pts[i][1] = Remainder(i * 97 + f.seed * 13, w)
          /\ pts[i][2] = Remainder(i * 71 + f.seed * 29, h)
          /\ 0 <= pts[i][1] /\ pts[i][1] < w
          /\ 0 <= pts[i][2] /\ pts[i][2] < h

\* drawFrame ran in this step: called by startRecording or by the browser
\* for an animation frame.
Draws == (AnimationFrame /\ canvasRef) \/ StartRecording("ok")

\* C14: every frame drawn is the starfield of its seed floor(elapsed * 10):
\* exactly 200 points, point i at x = (i*97 + seed*13) mod W and
\* y = (i*71 + seed*29) mod H, every point inside the canvas; a frame drawn
\* with the same elapsed time as the frame before it on the canvas has the
\* identical points; and for the seed of the moment the behaviour starts at,
\* the same holds on canvases of other sizes.
C14_Starfield ==
    /\ \A d \in OtherSizes :
          IsStarfield([seed |-> Seed(now - startTimeRef), elapsed |-> now - startTimeRef],
                      Stars(Seed(now - startTimeRef), d[1], d[2]), d[1], d[2])
    /\ [][Draws =>
            /\ frames'.loop # 0
            /\ IsStarfield(frames', Painted(frames'), CanvasWidth, CanvasHeight)
            /\ (frames.loop # 0 /\ frames'.elapsed = frames.elapsed)
                  => (frames'.seed = frames.seed /\ Painted(frames') = Painted(frames))]_vars

\* C14 witness: a frame was drawn later than 60 s after the start, with the
\* same elapsed time as the frame before it, and one of its points was
\* wrapped around both canvas dimensions.
C14_Witness ==
    /\ frames.loop # 0
    /\ frames.seed > 600
    /\ nextHandle > 3
    /\ \E i \in 0..(StarCount - 1) :
          /\ i * 97 + frames.seed * 13 >= CanvasWidth
          /\ i * 71 + frames.seed * 29 >= CanvasHeight

\* C15: when finalization of a session has completed (onstop ran) and its
\* artifact is exposed as the video URL, the accumulated fragments are empty
\* (stated for sessions that ended by a stop, without an encoder error).
C15_FragmentsClearedOnFinalize ==
    \A s \in Sessions :
        (/\ Phase(recorders[s]) = "Stopped" /\ ~recorders[s].errored
         /\ videoUrl # <<>> /\ videoUrl[1].session = s)
            => chunksRef = <<>>

\* C16: startTimeRef is written only by startRecording, and while a session
\* is recording every drawFrame of its loop computes the elapsed time from
\* the start value stored when that session started, so the elapsed time of
\* a frame is never smaller than that of the session's previous frame.
C16_ClockStartFixed ==
    [][/\ startTimeRef' # startTimeRef =>
             \E o \in {"ok", "startFail"} : StartRecording(o)
       /\ \A c \in rafQueue :
             (AnimationFrame /\ canvasRef /\ Recording(c.loop)) =>
                /\ startTimeRef = recorders[c.loop].startedAt
                /\ DrawFrame(BatchInput, c).frames.elapsed
                      = now - recorders[c.loop].startedAt
                /\ frames'.loop = c.loop
                /\ frames'.elapsed = now - recorders[c.loop].startedAt
                /\ frames.loop = c.loop => frames'.elapsed >= frames.elapsed]_vars

\* C16 witness: the second session, started after time had passed, is
\* recording and its loop has drawn a frame with a positive elapsed time.
C16_Witness ==
    /\ Len(recorders) = 2 /\ Recording(2)
    /\ startTimeRef = recorders[2].startedAt /\ startTimeRef > 0
    /\ frames.loop = 2 /\ frames.elapsed > 0

\* C17: once a frame of a recording session has drawn a loaded image, the
\* next frame of the same session draws that same image.
C17_SessionImageFixed ==
    [][\A c \in rafQueue :
          (/\ AnimationFrame /\ canvasRef /\ Recording(c.loop)
           /\ frames.loop = c.loop /\ frames.img # 0)
              => (frames'.loop = c.loop /\ frames'.img = frames.img)]_vars

\* C18: while the recording flag is true the video URL is empty, and the
\* video URL becomes non-empty only in an onstop step, which leaves the
\* recording flag false.
C18_NoArtifactWhileRecording ==
    [][/\ recording => videoUrl = <<>>
       /\ (videoUrl = <<>> /\ videoUrl' # <<>>) =>
             /\ \E s \in Sessions, z \in 0..MaxSize : FinalizeStep(s, z)
             /\ ~recording']_vars

\* C18 witness: the second session, whose start emptied the video URL of the
\* first, has ended: its onstop exposed its artifact and left the recording
\* flag false.
C18_Witness ==
    /\ Len(recorders) = 2
    /\ recorders[1].stopFired /\ recorders[2].stopFired
    /\ videoUrl # <<>> /\ videoUrl[1].session = 2
    /\ ~recording

\* C19: once every pending image load has completed, imageRef.current is the
\* image decoded from the payload stored last in imageDataUrl (stated for a
\* payload of a generation that stored all three results and so created its
\* Image).
C19_LatestImageWins ==
    (/\ mounted /\ pendingImages = {} /\ pendingGen = 0
     /\ imageDataUrl # 0 /\ script = imageDataUrl)
        => imageRef = imageDataUrl

\* C20: when the Promise.all of a handleGenerate settles in a mounted
\* component, either the text response, the image payload and the script are
\* all replaced by the results of this generation and no error is set, or the
\* text response, the image payload, the script and the loaded image are all
\* unchanged and the error message is set; in both cases the loading flag is
\* false afterwards (stated for responses that carry their field, have a
\* null body or are rejected).
C20_GenerateAtomic ==
    [][\A a, b, c \in Responses \ {"empty"} :
          (GenerateSettle(a, b, c) /\ mounted) =>
             /\ \/ (/\ textResp' = pendingGen
                    /\ imageDataUrl' = pendingGen
                    /\ script' = pendingGen
                    /\ error' = error)
                \/ (/\ UNCHANGED <<textResp, imageDataUrl, script, imageRef>>
                    /\ error' = "err")
             /\ ~loading']_vars

============================================================================
